---- MODULE Spec2Model ----
(***************************************************************************)
(* ModifierNode of tracktion_engine (playback/graph/tracktion_ModifierNode) *)
(* as a state machine: one node hosting one Modifier, driven by the graph   *)
(* (constructor, prepareToPlay, process, getNodeProperties, destructor) and *)
(* by the owner of the shared Modifier.                                     *)
(*                                                                         *)
(* Times (double seconds in the source) are exact rationals [n, d].         *)
(* Audio blocks are sequences of channels, a channel a sequence of frames.  *)
(* A MIDI list is [events, isAllNotesOff].                                  *)
(***************************************************************************)
EXTENDS Integers, Sequences, FiniteSets, TLC

\* ------------------------------------------------------------------ bounds
MaxChannels == 2
MaxFrames == 2
MaxTone == 1
MaxLatency == 2
MaxRate == 2
MaxNote == 1
MaxRefPos == 1
MaxID == 1

\* ------------------------------------------------------------------ values
Null == "null"

Min(a, b) == IF a < b THEN a ELSE b

\* juce::jmax
jmax(a, b) == IF a < b THEN b ELSE a

\* exact seconds
RatAdd(a, b) == [n |-> a.n * b.d + b.n * a.d, d |-> a.d * b.d]

RatNeg(a) == [n |-> 0 - a.n, d |-> a.d]

RatEq(a, b) == a.n * b.d = b.n * a.d

Zero == [n |-> 0, d |-> 1]

\* tracktion_graph::sampleToTime: samples / sampleRate
sampleToTime(samples, rate) == [n |-> samples, d |-> rate]

Notes == 1..MaxNote

SampleRates == 1..MaxRate

\* the content the destination block holds before the node writes to it
Stale == 0 - 1

\* what applyToBuffer leaves in a sample it writes
Processed == 0 - 2

\* the sample an upstream block of tone t holds at channel ch, frame fr
UpstreamSample(t, ch, fr) == t + (MaxTone + 1) * ((ch - 1) * MaxFrames + (fr - 1))

UpstreamBlock(t, channels, frames) ==
    [ch \in 1..channels |-> [fr \in 1..frames |-> UpstreamSample(t, ch, fr)]]

DestinationBlock(channels, frames) ==
    [ch \in 1..channels |-> [fr \in 1..frames |-> Stale]]

EmptyMidi == [events |-> {}, isAllNotesOff |-> FALSE]

MidiLists == [events : SUBSET Notes, isAllNotesOff : BOOLEAN]

\* ------------------------------------------------------------------ state
VARIABLES
    lifetime,
    playHeadState,
    audioRenderContextProvider,
    trackMuteState,
    isRendering,
    sampleRate,
    isInitialised,
    automationAdjustmentTime,
    midiMessageArray,
    modifier,
    initialiseCalls,
    deinitialiseCalls,
    ownerActed,
    neededInitialisingAtDestruction,
    prepared,
    muteRun,
    block,
    props

vars ==
    << lifetime, playHeadState, audioRenderContextProvider, trackMuteState,
       isRendering, sampleRate, isInitialised, automationAdjustmentTime,
       midiMessageArray, modifier, initialiseCalls, deinitialiseCalls,
       ownerActed, neededInitialisingAtDestruction, prepared, muteRun,
       block, props >>

nodeFields ==
    << playHeadState, audioRenderContextProvider, trackMuteState, isRendering,
       sampleRate, isInitialised >>

ghosts ==
    << initialiseCalls, deinitialiseCalls, ownerActed,
       neededInitialisingAtDestruction, prepared, muteRun >>

NoBlock == [called |-> FALSE]

NoProps == [called |-> FALSE]

NotPrepared == [called |-> FALSE]

\* no result of a call on the node is outstanding
Idle == ~ block.called /\ ~ props.called

\* Before construction: the members hold their default initialisers and the
\* shared Modifier is in whatever state its owner left it.
Init ==
    /\ lifetime = "unconstructed"
    /\ playHeadState = Null
    /\ audioRenderContextProvider = Null
    /\ trackMuteState = Null
    /\ isRendering = FALSE
    /\ sampleRate = 0
    /\ isInitialised = FALSE
    /\ automationAdjustmentTime = Zero
    /\ midiMessageArray = EmptyMidi
    /\ modifier \in [initialised : BOOLEAN]
    /\ initialiseCalls = << >>
    /\ deinitialiseCalls = 0
    /\ ownerActed = FALSE
    /\ neededInitialisingAtDestruction = Null
    /\ prepared = NotPrepared
    /\ muteRun = 0
    /\ block = NoBlock
    /\ props = NoProps

\* ------------------------------------------------------------------ Modifier
\* Modifier::baseClassNeedsInitialising
baseClassNeedsInitialising(m) == ~ m.initialised

\* Modifier::baseClassInitialise
baseClassInitialise(m, rate, blockSize) == [m EXCEPT !.initialised = TRUE]

\* Modifier::baseClassDeinitialise
baseClassDeinitialise(m) == [m EXCEPT !.initialised = FALSE]

\* ------------------------------------------------------------------ lifecycle
\* ModifierNode::initialiseModifier
initialiseModifier(sampleRateToUse, blockSizeToUse) ==
    /\ sampleRate' = sampleRateToUse
    /\ modifier' = baseClassInitialise(modifier, sampleRateToUse, blockSizeToUse)
    /\ initialiseCalls' = Append(initialiseCalls, << sampleRateToUse, blockSizeToUse >>)
    /\ isInitialised' = TRUE

\* ModifierNode (input, modifier, sampleRate, blockSize, trackMuteState, playHeadState, rendering)
ModifierNodePlayHead(sampleRateToUse, blockSizeToUse, trackMuteStateToUse, rendering) ==
    /\ lifetime = "unconstructed"
    /\ lifetime' = "alive"
    /\ trackMuteState' = trackMuteStateToUse
    /\ playHeadState' = "playHeadState"
    /\ isRendering' = rendering
    /\ initialiseModifier(sampleRateToUse, blockSizeToUse)
    /\ UNCHANGED << audioRenderContextProvider, automationAdjustmentTime,
                    midiMessageArray, deinitialiseCalls, ownerActed,
                    neededInitialisingAtDestruction, prepared, muteRun,
                    block, props >>

\* a faulty variant of ModifierNodeProvider: the context provider is not stored
ModifierNodeProviderDropped(sampleRateToUse, blockSizeToUse) ==
    /\ lifetime = "unconstructed"
    /\ lifetime' = "alive"
    /\ initialiseModifier(sampleRateToUse, blockSizeToUse)
    /\ UNCHANGED << playHeadState, trackMuteState, isRendering,
                    audioRenderContextProvider,
                    automationAdjustmentTime, midiMessageArray,
                    deinitialiseCalls, ownerActed,
                    neededInitialisingAtDestruction, prepared, muteRun,
                    block, props >>

\* ModifierNode (input, modifier, sampleRate, blockSize, contextProvider)
ModifierNodeProvider(sampleRateToUse, blockSizeToUse) ==
    /\ lifetime = "unconstructed"
    /\ lifetime' = "alive"
    /\ audioRenderContextProvider' = "contextProvider"
    /\ initialiseModifier(sampleRateToUse, blockSizeToUse)
    /\ UNCHANGED << playHeadState, trackMuteState, isRendering,
                    automationAdjustmentTime, midiMessageArray,
                    deinitialiseCalls, ownerActed,
                    neededInitialisingAtDestruction, prepared, muteRun,
                    block, props >>

\* a faulty variant of destructorDeinitialises: the needs-initialising check dropped
destructorDeinitialisesUnchecked(initialised, needsInitialising) == initialised

\* a faulty variant of destructorDeinitialises: the destructor releases nothing
destructorDeinitialisesNever(initialised, needsInitialising) == FALSE

\* ~ModifierNode: the condition under which it deinitialises the Modifier
destructorDeinitialises(initialised, needsInitialising) ==
    initialised /\ ~ needsInitialising

\* ~ModifierNode
DestroyModifierNode ==
    /\ lifetime = "alive"
    /\ lifetime' = "destroyed"
    /\ neededInitialisingAtDestruction' = baseClassNeedsInitialising(modifier)
    /\ IF destructorDeinitialises(isInitialised, baseClassNeedsInitialising(modifier))
          THEN /\ modifier' = baseClassDeinitialise(modifier)
               /\ deinitialiseCalls' = deinitialiseCalls + 1
          ELSE UNCHANGED << modifier, deinitialiseCalls >>
    /\ block' = NoBlock
    /\ props' = NoProps
    /\ UNCHANGED << nodeFields, automationAdjustmentTime, midiMessageArray,
                    initialiseCalls, ownerActed, prepared, muteRun >>

\* The owner of the shared Modifier initialises or deinitialises it itself.
OwnerInitialise ==
    /\ lifetime = "alive"
    /\ ~ modifier.initialised
    /\ modifier' = baseClassInitialise(modifier, sampleRate, MaxFrames)
    /\ ownerActed' = TRUE
    /\ UNCHANGED << lifetime, nodeFields, automationAdjustmentTime,
                    midiMessageArray, initialiseCalls, deinitialiseCalls,
                    neededInitialisingAtDestruction, prepared, muteRun,
                    block, props >>

OwnerDeinitialise ==
    /\ lifetime = "alive"
    /\ modifier.initialised
    /\ modifier' = baseClassDeinitialise(modifier)
    /\ ownerActed' = TRUE
    /\ UNCHANGED << lifetime, nodeFields, automationAdjustmentTime,
                    midiMessageArray, initialiseCalls, deinitialiseCalls,
                    neededInitialisingAtDestruction, prepared, muteRun,
                    block, props >>

\* ------------------------------------------------------------------ properties
\* a faulty variant of getNodeProperties: the Modifier's ports do not widen the node
getNodePropertiesUpstreamOnly(up, unit) == [up EXCEPT !.nodeID = unit.itemID]

\* ModifierNode::getNodeProperties
getNodeProperties(up, unit) ==
    [up EXCEPT
        !.numberOfChannels = jmax(up.numberOfChannels, unit.audioInputNames),
        !.hasAudio = up.hasAudio \/ unit.audioInputNames > 0,
        !.hasMidi = up.hasMidi \/ unit.midiInputNames > 0,
        !.nodeID = unit.itemID]

\* the graph asks the node for its properties
GetNodeProperties(upstreams, units) ==
    /\ lifetime = "alive"
    /\ Idle
    /\ \E up \in upstreams, unit \in units :
          props' = [called |-> TRUE, op |-> "getNodeProperties",
                    upstream |-> up, unit |-> unit,
                    result |-> getNodeProperties(up, unit)]
    /\ block' = NoBlock
    /\ UNCHANGED << lifetime, nodeFields, automationAdjustmentTime,
                    midiMessageArray, modifier, ghosts >>

\* a faulty variant of adjustedAutomationTime: the latency moves automation forward
adjustedAutomationTimeForward(current, latencyNumSamples, rate) ==
    IF latencyNumSamples > 0
       THEN sampleToTime(latencyNumSamples, rate)
       ELSE current

\* ModifierNode::prepareToPlay: automationAdjustmentTime after the call
adjustedAutomationTime(current, latencyNumSamples, rate) ==
    IF latencyNumSamples > 0
       THEN RatNeg(sampleToTime(latencyNumSamples, rate))
       ELSE current

\* ModifierNode::prepareToPlay (info.sampleRate is the node's sample rate)
prepareToPlay(upstreams, units) ==
    /\ lifetime = "alive"
    /\ Idle
    /\ \E up \in upstreams, unit \in units :
          LET p == getNodeProperties(up, unit)
          IN  /\ props' = [called |-> TRUE, op |-> "prepareToPlay",
                           upstream |-> up, unit |-> unit, result |-> p]
              /\ automationAdjustmentTime' =
                    adjustedAutomationTime(automationAdjustmentTime,
                                           p.latencyNumSamples, sampleRate)
              /\ prepared' = [called |-> TRUE,
                               latencyNumSamples |-> p.latencyNumSamples,
                               reportedLatencySamples |-> unit.reportedLatencySamples]
    /\ block' = NoBlock
    /\ UNCHANGED << lifetime, nodeFields, midiMessageArray, modifier,
                    initialiseCalls, deinitialiseCalls, ownerActed,
                    neededInitialisingAtDestruction, muteRun >>

\* ------------------------------------------------------------------ process
\* choc::buffer::copy: every channel and frame of source written over dest
copy(dest, source) ==
    [ch \in 1..Len(dest) |->
        IF ch <= Len(source)
           THEN [fr \in 1..Len(dest[ch]) |-> source[ch][fr]]
           ELSE dest[ch]]

\* getChannelRange ({ start, end })
getChannelRange(audio, start, end) == SubSeq(audio, start + 1, end)

\* MidiMessageArray::copyFrom: the events and the all-notes-off flag of other
copyFrom(other) == [events |-> other.events, isAllNotesOff |-> other.isAllNotesOff]

\* a faulty variant of copyInputsToOutputs: one channel too few is copied
copyInputsToOutputsShort(inputAudioBlock, outputAudioBlock) ==
    LET numInputChannelsToCopy == Min(Len(inputAudioBlock), Len(outputAudioBlock)) - 1
    IN  IF numInputChannelsToCopy > 0
           THEN copy(outputAudioBlock,
                     getChannelRange(inputAudioBlock, 0, numInputChannelsToCopy))
           ELSE outputAudioBlock

\* ModifierNode::process: copy the inputs to the outputs
copyInputsToOutputs(inputAudioBlock, outputAudioBlock) ==
    LET numInputChannelsToCopy == Min(Len(inputAudioBlock), Len(outputAudioBlock))
    IN  IF numInputChannelsToCopy > 0
           THEN copy(outputAudioBlock,
                     getChannelRange(inputAudioBlock, 0, numInputChannelsToCopy))
           ELSE outputAudioBlock

\* a faulty variant of playHeadJumpAllNotesOff: the jump is ignored
playHeadJumpIgnored(midi, playHead, didPlayheadJump) == midi

\* ModifierNode::process: a playhead jump sets isAllNotesOff
playHeadJumpAllNotesOff(midi, playHead, didPlayheadJump) ==
    IF playHead # Null /\ didPlayheadJump
       THEN [midi EXCEPT !.isAllNotesOff = TRUE]
       ELSE midi

\* a faulty variant of muteStateShouldProcess: an audible track re-enables the Modifier
muteStateShouldProcessReenabling(shouldProcess, muteState, mute) ==
    IF muteState # Null /\ ~ mute.shouldTrackContentsBeProcessed
       THEN shouldProcess \/ mute.shouldTrackBeAudible
       ELSE shouldProcess

\* ModifierNode::process: shouldProcess after the track mute state is consulted
muteStateShouldProcess(shouldProcess, muteState, mute) ==
    IF muteState # Null /\ ~ mute.shouldTrackContentsBeProcessed
       THEN shouldProcess /\ mute.shouldTrackBeAudible
       ELSE shouldProcess

\* a faulty variant of muteStateAllNotesOff: the flag is set in every unprocessed block
muteStateAllNotesOffWhileMuted(midi, muteState, mute) ==
    IF muteState # Null /\ ~ mute.shouldTrackContentsBeProcessed
       THEN [midi EXCEPT !.isAllNotesOff = TRUE]
       ELSE midi

\* ModifierNode::process: the block in which the track was muted sets isAllNotesOff
muteStateAllNotesOff(midi, muteState, mute) ==
    IF /\ muteState # Null
       /\ ~ mute.shouldTrackContentsBeProcessed
       /\ mute.wasJustMuted
       THEN [midi EXCEPT !.isAllNotesOff = TRUE]
       ELSE midi

NoContext == [source |-> "none"]

\* PlayHead::referenceSamplePositionToTimelinePosition
referenceSamplePositionToTimelinePosition(playHead, referenceSamplePosition) ==
    playHead.offset + referenceSamplePosition

\* ModifierNode::getPluginRenderContext
getPluginRenderContext(referenceSamplePosition, numChannels, numSamples, playHead, context) ==
    IF audioRenderContextProvider # Null
       THEN [context EXCEPT
                !.source = "contextProvider",
                !.bufferStartSample = 0,
                !.bufferNumSamples = numSamples,
                !.midiBufferOffset = Zero]
       ELSE IF playHeadState # Null
               THEN [source |-> "playHead",
                     destBufferChannels |-> numChannels,
                     bufferStartSample |-> 0,
                     bufferNumSamples |-> numSamples,
                     midiBufferOffset |-> Zero,
                     editTime |->
                        RatAdd(sampleToTime(
                                  referenceSamplePositionToTimelinePosition(
                                     playHead, referenceSamplePosition),
                                  sampleRate),
                               automationAdjustmentTime),
                     isPlaying |-> playHead.isPlaying,
                     isScrubbing |-> playHead.isUserDragging,
                     isRendering |-> isRendering,
                     allowBypassedProcessing |-> FALSE]
               ELSE [source |-> "null playHeadState"]

\* Modifier::applyToBuffer: the Modifier may write the destination samples and
\* add events to the MIDI list it is handed
applyToBuffer(audio, midi, effect) ==
    [audio |-> IF effect.writesAudio
                  THEN [ch \in 1..Len(audio) |->
                           [fr \in 1..Len(audio[ch]) |-> Processed]]
                  ELSE audio,
     midi |-> [midi EXCEPT !.events = midi.events \cup effect.addsEvents]]

NoEffect == [writesAudio |-> FALSE, addsEvents |-> {}]

Effects == [writesAudio : BOOLEAN, addsEvents : SUBSET Notes]

NoMuteState ==
    [shouldTrackContentsBeProcessed |-> TRUE, shouldTrackBeAudible |-> TRUE,
     wasJustMuted |-> FALSE]

\* what a TrackMuteState may report in a block
MuteStates ==
    [shouldTrackContentsBeProcessed : BOOLEAN, shouldTrackBeAudible : BOOLEAN,
     wasJustMuted : BOOLEAN]

NoPlayHead == [offset |-> 0, isPlaying |-> FALSE, isUserDragging |-> FALSE]

\* the blocks since the track was muted, while it stays muted and the playhead
\* does not jump (0: no such run)
muteRunAfter(run, muteState, mute, didPlayheadJump) ==
    IF muteState = Null \/ didPlayheadJump \/ mute.shouldTrackBeAudible
       THEN 0
       ELSE IF mute.wasJustMuted
               THEN 1
               ELSE IF run \in 1..2 THEN run + 1 ELSE 0

\* ModifierNode::process
process(env) ==
    /\ lifetime = "alive"
    /\ Idle
    /\ \E a \in env.audio, inputMidi \in env.midi, enabledParam \in env.enabled,
          referenceSamplePosition \in env.positions,
          didPlayheadJump \in (IF playHeadState # Null THEN env.jumps ELSE {FALSE}),
          playHead \in (IF playHeadState # Null THEN env.playHeads ELSE {NoPlayHead}),
          mute \in (IF trackMuteState # Null THEN env.mutes ELSE {NoMuteState}),
          context \in (IF audioRenderContextProvider # Null
                          THEN env.contexts ELSE {NoContext}) :
          LET inputBuffers ==
                  [audio |-> UpstreamBlock(a.tone, a.inputChannels, a.frames),
                   midi |-> inputMidi]
              outputAudioBlock ==
                  copyInputsToOutputs(inputBuffers.audio,
                                      DestinationBlock(a.outputChannels, a.frames))
              staged == copyFrom(inputBuffers.midi)
              jumped == playHeadJumpAllNotesOff(staged, playHeadState, didPlayheadJump)
              shouldProcess == muteStateShouldProcess(enabledParam, trackMuteState, mute)
              muted == muteStateAllNotesOff(jumped, trackMuteState, mute)
          IN  \E effect \in (IF shouldProcess THEN env.effects ELSE {NoEffect}) :
                 LET rc == IF shouldProcess
                              THEN getPluginRenderContext(referenceSamplePosition,
                                                          a.outputChannels, a.frames,
                                                          playHead, context)
                              ELSE NoContext
                     applied == IF shouldProcess
                                   THEN applyToBuffer(outputAudioBlock, muted, effect)
                                   ELSE [audio |-> outputAudioBlock, midi |-> muted]
                 IN  /\ midiMessageArray' = applied.midi
                     /\ muteRun' = muteRunAfter(muteRun, trackMuteState, mute,
                                                didPlayheadJump)
                     /\ block' =
                           [called |-> TRUE,
                            inputAudio |-> inputBuffers.audio,
                            inputMidi |-> inputBuffers.midi,
                            frames |-> a.frames,
                            outputChannels |-> a.outputChannels,
                            enabled |-> enabledParam,
                            didPlayheadJump |-> didPlayheadJump,
                            mute |-> mute,
                            referenceSamplePosition |-> referenceSamplePosition,
                            playHead |-> playHead,
                            applyCalls |-> IF shouldProcess THEN 1 ELSE 0,
                            rc |-> rc,
                            outputAudio |-> applied.audio,
                            outputMidi |-> copyFrom(applied.midi)]
    /\ props' = NoProps
    /\ UNCHANGED << lifetime, nodeFields, automationAdjustmentTime, modifier,
                    initialiseCalls, deinitialiseCalls, ownerActed,
                    neededInitialisingAtDestruction, prepared >>

\* the caller takes the result of the call and the node is free for the next
TakeResult ==
    /\ ~ Idle
    /\ block' = NoBlock
    /\ props' = NoProps
    /\ UNCHANGED << lifetime, nodeFields, automationAdjustmentTime,
                    midiMessageArray, modifier, ghosts >>

\* ------------------------------------------------------------------ inputs
AudioCases ==
    [tone : 0..MaxTone, inputChannels : 0..MaxChannels,
     outputChannels : 0..MaxChannels, frames : 1..MaxFrames]

OneAudioCase ==
    {[tone |-> 0, inputChannels |-> 1, outputChannels |-> 1, frames |-> 1]}

UpstreamProperties ==
    [numberOfChannels : 0..MaxChannels, hasAudio : BOOLEAN, hasMidi : BOOLEAN,
     latencyNumSamples : 0..MaxLatency, nodeID : 0..MaxID]

UpstreamLatencies ==
    [numberOfChannels : {1}, hasAudio : {TRUE}, hasMidi : {FALSE},
     latencyNumSamples : 0..MaxLatency, nodeID : {0}]

Modifiers ==
    [audioInputNames : 0..MaxChannels, midiInputNames : 0..MaxNote,
     itemID : 0..MaxID, reportedLatencySamples : {0}]

ModifierLatencies ==
    [audioInputNames : {1}, midiInputNames : {0}, itemID : {1},
     reportedLatencySamples : 0..MaxLatency]

PlayHeads == [offset : 0..MaxRefPos, isPlaying : BOOLEAN, isUserDragging : BOOLEAN]

\* what an InputProvider's getContext may hold
ProviderContexts ==
    [source : {"contextProvider"}, destBufferChannels : {MaxChannels},
     bufferStartSample : {MaxFrames}, bufferNumSamples : {0},
     midiBufferOffset : {sampleToTime(1, 1)},
     editTime : {sampleToTime(t, 1) : t \in 0..MaxRefPos},
     isPlaying : BOOLEAN, isScrubbing : {FALSE}, isRendering : {FALSE},
     allowBypassedProcessing : {FALSE}]

OneContext == {CHOOSE c \in ProviderContexts : c.editTime = Zero /\ c.isPlaying}

\* a muted track whose contents are not processed
Muted ==
    [shouldTrackContentsBeProcessed |-> FALSE, shouldTrackBeAudible |-> FALSE,
     wasJustMuted |-> FALSE]

\* the run/mute decision and the lifecycle
ControlEnv ==
    [rates |-> SampleRates, blockSizes |-> {MaxFrames},
     upstreams |-> {u \in UpstreamLatencies : u.latencyNumSamples \in {0, MaxLatency}},
     units |-> {m \in ModifierLatencies : m.reportedLatencySamples = 0},
     audio |-> OneAudioCase,
     midi |-> {m \in MidiLists : m.events \in {{}, Notes}},
     enabled |-> BOOLEAN, jumps |-> BOOLEAN, mutes |-> MuteStates,
     positions |-> {0}, playHeads |-> {NoPlayHead}, contexts |-> OneContext,
     effects |-> {e \in Effects : e.addsEvents \in {{}, Notes}}]

\* latency and the time base
TimingEnv ==
    [rates |-> SampleRates, blockSizes |-> {MaxFrames},
     upstreams |-> UpstreamLatencies, units |-> ModifierLatencies,
     audio |-> OneAudioCase, midi |-> {EmptyMidi}, enabled |-> BOOLEAN,
     jumps |-> {FALSE}, mutes |-> {NoMuteState}, positions |-> 0..MaxRefPos,
     playHeads |-> PlayHeads, contexts |-> ProviderContexts, effects |-> {NoEffect}]

\* the shapes of the upstream and the destination block
AudioEnv ==
    [rates |-> {MaxRate}, blockSizes |-> {MaxFrames},
     upstreams |-> {u \in UpstreamLatencies : u.latencyNumSamples = 0},
     units |-> {m \in ModifierLatencies : m.reportedLatencySamples = 0},
     audio |-> AudioCases,
     midi |-> {m \in MidiLists : ~ m.isAllNotesOff /\ m.events \in {{}, Notes}},
     enabled |-> BOOLEAN, jumps |-> BOOLEAN, mutes |-> {NoMuteState, Muted},
     positions |-> {0}, playHeads |-> {NoPlayHead}, contexts |-> OneContext,
     effects |-> {e \in Effects : e.addsEvents = {}}]

\* the properties of the upstream node and the ports of the Modifier
PropertiesEnv ==
    [rates |-> {MaxRate}, blockSizes |-> {MaxFrames},
     upstreams |-> UpstreamProperties, units |-> Modifiers,
     audio |-> OneAudioCase, midi |-> {EmptyMidi}, enabled |-> BOOLEAN,
     jumps |-> {FALSE}, mutes |-> {NoMuteState}, positions |-> {0},
     playHeads |-> {NoPlayHead}, contexts |-> OneContext, effects |-> {NoEffect}]

\* ------------------------------------------------------------------ specification
Next(env) ==
    \/ \E rate \in env.rates, blockSize \in env.blockSizes,
          muteState \in {Null, "trackMuteState"}, rendering \in BOOLEAN :
          ModifierNodePlayHead(rate, blockSize, muteState, rendering)
    \/ \E rate \in env.rates, blockSize \in env.blockSizes :
          ModifierNodeProvider(rate, blockSize)
    \/ prepareToPlay(env.upstreams, env.units)
    \/ GetNodeProperties(env.upstreams, env.units)
    \/ process(env)
    \/ TakeResult
    \/ OwnerInitialise
    \/ OwnerDeinitialise
    \/ DestroyModifierNode

NextControl == Next(ControlEnv)

NextTiming == Next(TimingEnv)

NextAudio == Next(AudioEnv)

NextProperties == Next(PropertiesEnv)

Spec == Init /\ [][NextControl]_vars

SpecTiming == Init /\ [][NextTiming]_vars

SpecAudio == Init /\ [][NextAudio]_vars

SpecProperties == Init /\ [][NextProperties]_vars

\* ------------------------------------------------------------------ claims
AllNotesOff == block.outputMidi.isAllNotesOff

ShouldRun ==
    /\ block.enabled
    /\ \/ trackMuteState = Null
       \/ block.mute.shouldTrackContentsBeProcessed
       \/ block.mute.shouldTrackBeAudible

MappedPosition ==
    referenceSamplePositionToTimelinePosition(block.playHead,
                                              block.referenceSamplePosition)

\* t = samples / sampleRate
IsSeconds(t, samples) == t.n * sampleRate = samples * t.d

\* C1: a block processed by a node with a playhead in which the playhead
\* reports a jump publishes a MIDI list with the all-notes-off flag set,
\* whatever the enable parameter and the mute state say and whether or not
\* applyToBuffer ran.
C1_AllNotesOffOnJump ==
    (block.called /\ playHeadState # Null /\ block.didPlayheadJump) => AllNotesOff

C1_Witness ==
    /\ block.called
    /\ block.didPlayheadJump
    /\ block.applyCalls = 1
    /\ trackMuteState # Null
    /\ ~ block.inputMidi.isAllNotesOff
    /\ AllNotesOff

\* C2 as stated: in a run of blocks that starts with the block in which the
\* track was muted (wasJustMuted) and goes on while the track stays muted and
\* the playhead does not jump, the first block publishes all-notes-off and the
\* second and third do not.
C2_Original ==
    block.called =>
       /\ muteRun = 1 => AllNotesOff
       /\ muteRun \in 2..3 => ~ AllNotesOff

\* C2 amended: the first block of the run publishes all-notes-off when the
\* mute state reports that the track contents are not to be processed; the
\* second and third blocks do not publish it unless the upstream MIDI of
\* that block carries it.
C2_MuteEdgeOnce ==
    block.called =>
       /\ (muteRun = 1 /\ ~ block.mute.shouldTrackContentsBeProcessed) => AllNotesOff
       /\ (muteRun \in 2..3 /\ ~ block.inputMidi.isAllNotesOff) => ~ AllNotesOff

C2_Witness ==
    /\ block.called
    /\ muteRun = 3
    /\ ~ block.mute.shouldTrackContentsBeProcessed
    /\ block.applyCalls = 0
    /\ ~ AllNotesOff

\* C3 as stated: a node destroyed while its Modifier reports that it does not
\* need initialising does not deinitialise the Modifier.
C3_Original ==
    (lifetime = "destroyed" /\ neededInitialisingAtDestruction = FALSE)
       => deinitialiseCalls = 0

\* C3 amended: a node destroyed while its Modifier reports that it needs
\* initialising (its owner has deinitialised it already) does not deinitialise
\* the Modifier again.
C3_NoDoubleDeinitialise ==
    (lifetime = "destroyed" /\ neededInitialisingAtDestruction = TRUE)
       => (deinitialiseCalls = 0 /\ ~ modifier.initialised)

C3_Witness ==
    /\ lifetime = "destroyed"
    /\ neededInitialisingAtDestruction = TRUE
    /\ ownerActed

\* C4: either constructor initialises the Modifier exactly once, with the
\* node's sample rate; the node does not deinitialise it while alive; and the
\* destructor, when only the node has touched the Modifier since construction,
\* deinitialises it exactly once.
C4_LifecyclePairing ==
    /\ lifetime = "unconstructed" => (initialiseCalls = << >> /\ deinitialiseCalls = 0)
    /\ lifetime # "unconstructed" =>
          (Len(initialiseCalls) = 1 /\ initialiseCalls[1][1] = sampleRate)
    /\ lifetime = "alive" => deinitialiseCalls = 0
    /\ (lifetime = "destroyed" /\ ~ ownerActed) => deinitialiseCalls = 1
    /\ deinitialiseCalls <= 1

C4_Witness ==
    /\ lifetime = "destroyed"
    /\ ~ ownerActed
    /\ prepared.called
    /\ midiMessageArray # EmptyMidi
    /\ deinitialiseCalls = 1

\* C5: in a block in which applyToBuffer is not called, the destination has
\* its own channel count and frame count, its channels below the upstream's
\* channel count hold the upstream's frames, its other channels hold what
\* they held before, and the published MIDI events are the upstream's.
C5_PassThrough ==
    (block.called /\ block.applyCalls = 0) =>
       /\ Len(block.outputAudio) = block.outputChannels
       /\ \A ch \in 1..block.outputChannels :
             /\ Len(block.outputAudio[ch]) = block.frames
             /\ \A fr \in 1..block.frames :
                   block.outputAudio[ch][fr] =
                      IF ch <= Len(block.inputAudio)
                         THEN block.inputAudio[ch][fr]
                         ELSE Stale
       /\ block.outputMidi.events = block.inputMidi.events

C5_Witness ==
    /\ block.called
    /\ block.applyCalls = 0
    /\ block.enabled
    /\ Len(block.inputAudio) = MaxChannels
    /\ block.outputChannels = 1
    /\ block.frames = MaxFrames
    /\ block.inputMidi.events # {}

\* C6: the properties of the node are the upstream's with the channel count
\* raised to the Modifier's audio input count, hasAudio and hasMidi set when
\* the Modifier has audio or MIDI inputs, and the Modifier's id as node id.
C6_PropertyAggregation ==
    props.called =>
       LET up == props.upstream
           unit == props.unit
           r == props.result
       IN  /\ r.numberOfChannels >= up.numberOfChannels
           /\ r.numberOfChannels >= unit.audioInputNames
           /\ r.numberOfChannels \in {up.numberOfChannels, unit.audioInputNames}
           /\ r.hasAudio <=> (up.hasAudio \/ unit.audioInputNames > 0)
           /\ r.hasMidi <=> (up.hasMidi \/ unit.midiInputNames > 0)
           /\ r.nodeID = unit.itemID

C6_Witness ==
    /\ props.called
    /\ props.op = "getNodeProperties"
    /\ props.unit.audioInputNames > props.upstream.numberOfChannels
    /\ ~ props.upstream.hasAudio
    /\ props.upstream.hasMidi
    /\ props.upstream.nodeID # props.unit.itemID
    /\ props.result.hasAudio

C9_RunDecision ==
    block.called =>
       /\ block.applyCalls = IF ShouldRun THEN 1 ELSE 0
       /\ ~ block.enabled => block.applyCalls = 0
       /\ block.outputMidi = midiMessageArray

C9_Witness ==
    /\ block.called
    /\ trackMuteState # Null
    /\ block.enabled
    /\ ~ block.mute.shouldTrackContentsBeProcessed
    /\ block.mute.shouldTrackBeAudible
    /\ block.applyCalls = 1

\* C10 as stated: after any prepareToPlay the automation adjustment is minus
\* the latency that the most recent prepareToPlay found, in seconds (0 when
\* it found none).
C10_Original ==
    prepared.called =>
       IsSeconds(automationAdjustmentTime, 0 - prepared.latencyNumSamples)

====
